---------------------------- MODULE Spec2Model ----------------------------
(***************************************************************************)
(* A model of platformio.project.config.ProjectConfig: the merged          *)
(* configuration document, its readers (options / has_option / getraw /    *)
(* get), the file merger (read) and the validator.                         *)
(*                                                                         *)
(* A Python str is a sequence of one-character strings, so that splitting, *)
(* trimming, comment stripping and the ${section.option} pattern are       *)
(* computed on characters as the code computes them.  A Python value is a  *)
(* record [t, v] with t one of "None", "str", "list", "bool".              *)
(***************************************************************************)
EXTENDS Integers, Sequences, FiniteSets, TLC

VARIABLES
    path,                   \* self.path
    expand_interpolations,  \* self.expand_interpolations
    parser,                 \* self._parser: the sections and their options, in order
    parsed,                 \* self._parsed
    parser_reads,           \* the paths handed to self._parser.read, in order
    environ,                \* os.environ
    call,                   \* the last method called, with its arguments
    ret                     \* what it returned or raised

vars == <<path, expand_interpolations, parser, parsed, parser_reads, environ, call, ret>>

-----------------------------------------------------------------------------
(* Python values *)

PyNone == [t |-> "None", v |-> <<>>]
PyStr(s) == [t |-> "str", v |-> s]
PyList(l) == [t |-> "list", v |-> l]
PyBool(b) == [t |-> "bool", v |-> b]

\* Python truthiness of None, str and list values
Truthy(x) == x.t # "None" /\ x.v # <<>>

\* the outcome of a call: exc = "" when it returned
Ok(v) == [exc |-> "", v |-> v]
Raise(e) == [exc |-> e, v |-> <<>>]

-----------------------------------------------------------------------------
(* str methods *)

Whitespace == {" ", "\n", "\t"}

Min(S) == CHOOSE i \in S : \A j \in S : i <= j

\* sub in s
Contains(s, sub) ==
    \E i \in 1..(Len(s) - Len(sub) + 1) : SubSeq(s, i, i + Len(sub) - 1) = sub

\* s.startswith(pre)
StartsWith(s, pre) == Len(s) >= Len(pre) /\ SubSeq(s, 1, Len(pre)) = pre

\* s.find(sub), 1-based, 0 when absent
Find(s, sub) ==
    LET at == {i \in 1..(Len(s) - Len(sub) + 1) : SubSeq(s, i, i + Len(sub) - 1) = sub}
    IN  IF at = {} THEN 0 ELSE Min(at)

\* s.strip()
Strip(s) ==
    LET keep == {i \in 1..Len(s) : s[i] \notin Whitespace}
    IN  IF keep = {} THEN <<>>
        ELSE SubSeq(s, Min(keep), CHOOSE i \in keep : \A j \in keep : j <= i)

\* s.split(sep)
RECURSIVE Split(_, _)
Split(s, sep) ==
    LET i == Find(s, sep)
    IN  IF i = 0 THEN <<s>>
        ELSE <<SubSeq(s, 1, i - 1)>> \o Split(SubSeq(s, i + Len(sep), Len(s)), sep)

\* s.split(":", 1)[0]
Scope(section) ==
    LET i == Find(section, <<":">>)
    IN  IF i = 0 THEN section ELSE SubSeq(section, 1, i - 1)

UpperChar ==
    [c \in {"a", "b", "c", "d", "e", "f", "g", "h", "i", "j", "k", "l", "m",
            "n", "o", "p", "q", "r", "s", "t", "u", "v", "w", "x", "y", "z"} |->
        CASE c = "a" -> "A" [] c = "b" -> "B" [] c = "c" -> "C" [] c = "d" -> "D"
          [] c = "e" -> "E" [] c = "f" -> "F" [] c = "g" -> "G" [] c = "h" -> "H"
          [] c = "i" -> "I" [] c = "j" -> "J" [] c = "k" -> "K" [] c = "l" -> "L"
          [] c = "m" -> "M" [] c = "n" -> "N" [] c = "o" -> "O" [] c = "p" -> "P"
          [] c = "q" -> "Q" [] c = "r" -> "R" [] c = "s" -> "S" [] c = "t" -> "T"
          [] c = "u" -> "U" [] c = "v" -> "V" [] c = "w" -> "W" [] c = "x" -> "X"
          [] c = "y" -> "Y" [] c = "z" -> "Z"]

\* s.upper()
Upper(s) == [i \in 1..Len(s) |-> IF s[i] \in DOMAIN UpperChar THEN UpperChar[s[i]] ELSE s[i]]

\* "\n".join(l)
RECURSIVE JoinLines(_)
JoinLines(l) ==
    IF l = <<>> THEN <<>>
    ELSE IF Len(l) = 1 THEN l[1]
    ELSE l[1] \o <<"\n">> \o JoinLines(Tail(l))

-----------------------------------------------------------------------------
(* parse_multi_values *)

\* inline_comment_re.sub("", item): the first run of whitespace followed by
\* ";" and everything after it is removed (an item holds no newline, so
\* ".*$" runs to its end)
StripInlineComment(item) ==
    LET at == {i \in 1..Len(item) :
                  /\ item[i] \in Whitespace
                  /\ \E j \in i..(Len(item) - 1) :
                        /\ \A k \in i..j : item[k] \in Whitespace
                        /\ item[j + 1] = ";"}
    IN  IF at = {} THEN item ELSE SubSeq(item, 1, Min(at) - 1)

\* one stripped item of the loop, put before the items parsed after it
ParseItem(item, rest) ==
    IF item = <<>> \/ item[1] \in {";", "#"} THEN rest
    ELSE IF \E i \in 1..Len(item) : item[i] = ";"
         THEN <<Strip(StripInlineComment(item))>> \o rest
         ELSE <<item>> \o rest

RECURSIVE ParseItems(_)
ParseItems(pieces) ==
    IF pieces = <<>> THEN <<>>
    ELSE ParseItem(Strip(Head(pieces)), ParseItems(Tail(pieces)))

parse_multi_values(items) ==
    IF items = <<>> THEN <<>>
    ELSE ParseItems(Split(items, IF Contains(items, <<"\n">>) THEN <<"\n">> ELSE <<",", " ">>))

-----------------------------------------------------------------------------
(* names *)

S_platformio == <<"p", "l", "a", "t", "f", "o", "r", "m", "i", "o">>
S_env == <<"e", "n", "v">>
S_env_colon == <<"e", "n", "v", ":">>
S_env_uno == <<"e", "n", "v", ":", "u", "n", "o">>
S_env_due == <<"e", "n", "v", ":", "d", "u", "e">>
S_x == <<"x">>
S_sysenv == <<"s", "y", "s", "e", "n", "v">>
S_extra_configs == <<"e", "x", "t", "r", "a", "_", "c", "o", "n", "f", "i", "g", "s">>
S_env_default == <<"e", "n", "v", "_", "d", "e", "f", "a", "u", "l", "t">>
S_lib_extra_dirs == <<"l", "i", "b", "_", "e", "x", "t", "r", "a", "_", "d", "i", "r", "s">>
S_build_flags == <<"b", "u", "i", "l", "d", "_", "f", "l", "a", "g", "s">>
S_upload_port == <<"u", "p", "l", "o", "a", "d", "_", "p", "o", "r", "t">>
S_port == <<"p", "o", "r", "t">>
S_uport == <<"u", "p", "o", "r", "t">>
S_PLATFORMIO_ == <<"P", "L", "A", "T", "F", "O", "R", "M", "I", "O", "_">>
S_PLATFORMIO_BUILD_FLAGS == S_PLATFORMIO_ \o <<"B", "U", "I", "L", "D", "_", "F", "L", "A", "G", "S">>
S_PLATFORMIO_UPLOAD_PORT == S_PLATFORMIO_ \o <<"U", "P", "L", "O", "A", "D", "_", "P", "O", "R", "T">>
S_PLATFORMIO_LIB_EXTRA_DIRS == S_PLATFORMIO_ \o <<"L", "I", "B", "_", "E", "X", "T", "R", "A", "_", "D", "I", "R", "S">>
S_PLATFORMIO_PORT == S_PLATFORMIO_ \o <<"P", "O", "R", "T">>
S_PLATFORMIO_UPORT == S_PLATFORMIO_ \o <<"U", "P", "O", "R", "T">>
S_FOO == <<"F", "O", "O">>

-----------------------------------------------------------------------------
(* the option catalog: platformio.project.options.ProjectOptions *)

ProjectOptions == <<
    [scope |-> S_platformio, name |-> S_env_default, multiple |-> TRUE,
     sysenvvar |-> PyNone, oldnames |-> <<>>],
    [scope |-> S_platformio, name |-> S_extra_configs, multiple |-> TRUE,
     sysenvvar |-> PyNone, oldnames |-> <<>>],
    [scope |-> S_env, name |-> S_build_flags, multiple |-> TRUE,
     sysenvvar |-> PyStr(S_PLATFORMIO_BUILD_FLAGS), oldnames |-> <<>>],
    [scope |-> S_env, name |-> S_upload_port, multiple |-> FALSE,
     sysenvvar |-> PyStr(S_PLATFORMIO_UPLOAD_PORT), oldnames |-> <<S_port, S_uport>>],
    [scope |-> S_env, name |-> S_lib_extra_dirs, multiple |-> TRUE,
     sysenvvar |-> PyStr(S_PLATFORMIO_LIB_EXTRA_DIRS), oldnames |-> <<>>] >>

\* ProjectOptions.get("%s.%s" % (scope, option)): the entries under that key
OptionMeta(scope, option) ==
    {i \in 1..Len(ProjectOptions) :
        ProjectOptions[i].scope \o <<".">> \o ProjectOptions[i].name
            = scope \o <<".">> \o option}

\* the catalog entry under a key that has one
Meta(scope, option) == ProjectOptions[CHOOSE i \in OptionMeta(scope, option) : TRUE]

-----------------------------------------------------------------------------
(* the key-value parser (ConfigParser): a sequence of sections, each a    *)
(* name and a sequence of (option, value) pairs, in insertion order        *)

sections(doc) == [i \in 1..Len(doc) |-> doc[i].name]

has_section(doc, section) == \E i \in 1..Len(doc) : doc[i].name = section

SectionIndex(doc, section) == CHOOSE i \in 1..Len(doc) : doc[i].name = section

\* the (option, value) pairs of a declared section
SectionItems(doc, section) == doc[SectionIndex(doc, section)].opts

Keys(its) == [i \in 1..Len(its) |-> its[i].k]

Range(f) == {f[i] : i \in DOMAIN f}

\* self._parser.options(section) of a declared section
parser_options(doc, section) == Keys(SectionItems(doc, section))

ItemsHave(its, option) == \E i \in 1..Len(its) : its[i].k = option

parser_has_option(doc, section, option) ==
    has_section(doc, section) /\ ItemsHave(SectionItems(doc, section), option)

ItemsGet(its, option) ==
    IF ItemsHave(its, option)
    THEN [exc |-> "", v |-> its[CHOOSE i \in 1..Len(its) : its[i].k = option].v]
    ELSE [exc |-> "NoOptionError", v |-> <<>>]

\* self._parser.get(section, option)
parser_get(doc, section, option) ==
    IF has_section(doc, section) THEN ItemsGet(SectionItems(doc, section), option)
    ELSE Raise("NoSectionError")

add_section(doc, section) == Append(doc, [name |-> section, opts |-> <<>>])

ItemsSet(its, option, value) ==
    IF ItemsHave(its, option)
    THEN [i \in 1..Len(its) |-> IF its[i].k = option THEN [k |-> option, v |-> value] ELSE its[i]]
    ELSE Append(its, [k |-> option, v |-> value])

\* self._parser.set(section, option, value) on a declared section
parser_set(doc, section, option, value) ==
    [doc EXCEPT ![SectionIndex(doc, section)].opts = ItemsSet(@, option, value)]

\* self._parser.remove_option(section, option) on a declared section
remove_option(doc, section, option) ==
    [doc EXCEPT ![SectionIndex(doc, section)].opts = SelectSeq(@, LAMBDA it : it.k # option)]

\* self._parser.read(path) of a well-formed file: its sections and options
\* are merged into the document in file order
RECURSIVE MergeItems(_, _)
MergeItems(its, more) ==
    IF more = <<>> THEN its
    ELSE MergeItems(ItemsSet(its, Head(more).k, Head(more).v), Tail(more))

MergeSection(doc, sec) ==
    [doc EXCEPT ![SectionIndex(doc, sec.name)].opts = MergeItems(@, sec.opts)]

RECURSIVE parser_read(_, _)
parser_read(doc, filedoc) ==
    IF filedoc = <<>> THEN doc
    ELSE parser_read(
             MergeSection(IF has_section(doc, Head(filedoc).name) THEN doc
                          ELSE add_section(doc, Head(filedoc).name),
                          Head(filedoc)),
             Tail(filedoc))

-----------------------------------------------------------------------------
(* the process environment *)

\* os.getenv(name)
getenv(name) == IF name \in DOMAIN environ THEN PyStr(environ[name]) ELSE PyNone

-----------------------------------------------------------------------------
(* interpolation: getraw and _re_interpolation_handler *)

\* the interpreter's recursion limit, counted in nested getraw calls
RecursionLimit == 6

NoMatch == [ok |-> FALSE, section |-> <<>>, option |-> <<>>, end |-> 0]

\* the rest of VARTPL_RE after "${" at i and the first "." or "}" at d: that
\* character is "." after one or more others, and "}" at e closes one or more
\* characters other than "}"
MatchGroups(s, i, d, stop2) ==
    IF s[d] # "." \/ d = i + 2 \/ stop2 = {} \/ (d + 1) \in stop2 THEN NoMatch
    ELSE [ok |-> TRUE,
          section |-> SubSeq(s, i + 2, d - 1),
          option |-> SubSeq(s, d + 1, Min(stop2) - 1),
          end |-> Min(stop2)]

MatchFrom(s, i, stop1) ==
    IF stop1 = {} THEN NoMatch
    ELSE MatchGroups(s, i, Min(stop1), {j \in (Min(stop1) + 1)..Len(s) : s[j] = "}"})

\* VARTPL_RE matched at position i of s
MatchAt(s, i) ==
    IF i + 1 <= Len(s) /\ s[i] = "$" /\ s[i + 1] = "{"
    THEN MatchFrom(s, i, {j \in (i + 2)..Len(s) : s[j] \in {".", "}"}})
    ELSE NoMatch

\* the except clause of getraw: [env]'s option when an env:* section does
\* not declare it
EnvFallback(doc, section, option, own) ==
    IF own.exc = "NoOptionError" /\ StartsWith(section, S_env_colon)
    THEN parser_get(doc, S_env, option)
    ELSE own

\* the value getraw looks up before expanding it
getraw_lookup(doc, section, option) ==
    EnvFallback(doc, section, option, parser_get(doc, section, option))

RECURSIVE getraw_at(_, _, _, _)
RECURSIVE VARTPL_sub(_, _, _, _)

\* a handler that substitutes the referenced option's stored value as it is
handler_unexpanded(doc, section, option, depth) ==
    IF section = S_sysenv
    THEN Ok(getenv(option).v)
    ELSE getraw_lookup(doc, section, option)

\* _re_interpolation_handler(match), called at nesting depth `depth`; a None
\* replacement (an unset variable) is substituted as the empty string
re_interpolation_handler(doc, section, option, depth) ==
    IF section = S_sysenv
    THEN Ok(getenv(option).v)
    ELSE getraw_at(doc, section, option, depth + 1)

\* a piece of the substituted string put before the rest of it
Before(piece, rest) == IF rest.exc # "" THEN rest ELSE Ok(piece \o rest.v)

\* the match m at position i: its replacement r, then the rest of the string;
\* a handler that raises ends the substitution
SubMatch(doc, s, depth, m, r) ==
    IF r.exc # "" THEN r ELSE Before(r.v, VARTPL_sub(doc, s, m.end + 1, depth))

SubAt(doc, s, i, depth, m) ==
    IF m.ok
    THEN SubMatch(doc, s, depth, m, re_interpolation_handler(doc, m.section, m.option, depth))
    ELSE Before(<<s[i]>>, VARTPL_sub(doc, s, i + 1, depth))

\* VARTPL_RE.sub(self._re_interpolation_handler, s) from position i on:
\* matches are replaced left to right and a replacement is not scanned again
VARTPL_sub(doc, s, i, depth) ==
    IF i > Len(s) THEN Ok(<<>>) ELSE SubAt(doc, s, i, depth, MatchAt(s, i))

\* lines 166-168: the looked-up value, expanded when it holds "${" and "}"
Expand(doc, value, depth) ==
    IF value.exc # "" THEN value
    ELSE IF ~Contains(value.v, <<"$", "{">>) \/ ~Contains(value.v, <<"}">>) THEN value
    ELSE VARTPL_sub(doc, value.v, 1, depth)

\* a getraw whose exhausted recursion is reported as a missing option
getraw_nooption(doc, section, option, depth) ==
    IF depth > RecursionLimit THEN Raise("NoOptionError")
    ELSE IF ~expand_interpolations THEN parser_get(doc, section, option)
    ELSE Expand(doc, getraw_lookup(doc, section, option), depth)

\* getraw(section, option) entered at nesting depth `depth`
getraw_at(doc, section, option, depth) ==
    IF depth > RecursionLimit THEN Raise("RecursionError")
    ELSE IF ~expand_interpolations THEN parser_get(doc, section, option)
    ELSE Expand(doc, getraw_lookup(doc, section, option), depth)

getraw(doc, section, option) == getraw_at(doc, section, option, 1)

-----------------------------------------------------------------------------
(* get: the file-derived value, the catalog metadata, the environment *)

\* lines 196-199: the legacy aliases PLATFORMIO_<OLDNAME> probed in order
\* until one is non-empty; the last one probed is kept when none is
RECURSIVE ProbeOldnames(_)
ProbeFrom(oldnames, v) ==
    IF Truthy(v) \/ Len(oldnames) = 1 THEN v ELSE ProbeOldnames(Tail(oldnames))

ProbeOldnames(oldnames) ==
    ProbeFrom(oldnames, getenv(S_PLATFORMIO_ \o Upper(Head(oldnames))))

\* lines 195-199, given the bound variable's value
OrOldnames(meta, bound) ==
    IF ~Truthy(bound) /\ meta.oldnames # <<>> THEN ProbeOldnames(meta.oldnames) ELSE bound

\* lines 194-199: the environment value of a catalog option with a bound variable
envvar_value(meta) == OrOldnames(meta, getenv(meta.sysenvvar.v))

\* an environment value that replaces a single-valued option's value
ApplyEnv_override(meta, value, ev) ==
    IF Truthy(ev) /\ meta.multiple
    THEN PyList((IF Truthy(value) THEN value.v ELSE <<>>) \o parse_multi_values(ev.v))
    ELSE IF Truthy(ev) THEN ev
    ELSE value

\* environment tokens put before the file's
ApplyEnv_prepend(meta, value, ev) ==
    IF Truthy(ev) /\ meta.multiple
    THEN PyList(parse_multi_values(ev.v) \o (IF Truthy(value) THEN value.v ELSE <<>>))
    ELSE IF Truthy(ev) /\ ~Truthy(value) THEN ev
    ELSE value

\* lines 200-204: the environment value ev against the value so far
ApplyEnv(meta, value, ev) ==
    IF Truthy(ev) /\ meta.multiple
    THEN PyList((IF Truthy(value) THEN value.v ELSE <<>>) \o parse_multi_values(ev.v))
    ELSE IF Truthy(ev) /\ ~Truthy(value) THEN ev
    ELSE value

\* lines 193-206
WithSysenv(meta, value) ==
    IF Truthy(meta.sysenvvar) THEN ApplyEnv(meta, value, envvar_value(meta)) ELSE value

\* lines 190-206: a list given as the default has no split()
WithMeta(meta, value) ==
    IF Truthy(value) /\ meta.multiple
    THEN (IF value.t = "list" THEN Raise("AttributeError")
          ELSE Ok(WithSysenv(meta, PyList(parse_multi_values(value.v)))))
    ELSE Ok(WithSysenv(meta, value))

\* lines 185-206 of get(): `value` is the getraw result or the default
get_value(section, option, value) ==
    IF OptionMeta(Scope(section), option) = {} THEN Ok(value)
    ELSE WithMeta(Meta(Scope(section), option), value)

\* lines 177-206, given what getraw returned or raised
GetFrom(section, option, default, raw) ==
    IF raw.exc \in {"NoSectionError", "NoOptionError"} THEN get_value(section, option, default)
    ELSE IF raw.exc # "" THEN raw
    ELSE get_value(section, option, PyStr(raw.v))

\* get(section, option, default)
get(doc, section, option, default) ==
    GetFrom(section, option, default, getraw(doc, section, option))

-----------------------------------------------------------------------------
(* options, has_option *)

RECURSIVE AppendMissing(_, _)
AppendMissing(opts, more) ==
    IF more = <<>> THEN opts
    ELSE AppendMissing(IF Head(more) \in Range(opts) THEN opts ELSE Append(opts, Head(more)),
                       Tail(more))

\* the catalog options of `scope` whose bound variable is in os.environ
SysenvOptions(scope) ==
    Keys(SelectSeq([i \in 1..Len(ProjectOptions) |->
                       [k |-> ProjectOptions[i].name, m |-> ProjectOptions[i]]],
                   LAMBDA e : /\ e.m.scope = scope
                              /\ Truthy(e.m.sysenvvar)
                              /\ e.m.sysenvvar.v \in DOMAIN environ))

\* lines 113-118: the options of [env] after an env:* section's own
WithEnvOptions(doc, section, own) ==
    IF StartsWith(section, S_env_colon) /\ has_section(doc, S_env)
    THEN AppendMissing(own, parser_options(doc, S_env))
    ELSE own

\* options(section)
options(doc, section) ==
    IF ~has_section(doc, section) THEN Raise("NoSectionError")
    ELSE Ok(AppendMissing(WithEnvOptions(doc, section, parser_options(doc, section)),
                          SysenvOptions(Scope(section))))

\* has_option(section, option)
has_option(doc, section, option) ==
    \/ parser_has_option(doc, section, option)
    \/ /\ StartsWith(section, S_env_colon)
       /\ has_section(doc, S_env)
       /\ parser_has_option(doc, S_env, option)

-----------------------------------------------------------------------------
(* the file system: each file's path and what the parser reads from it     *)

Opt(k, v) == [k |-> k, v |-> v]
Sec(name, opts) == [name |-> name, opts |-> opts]

P_p == <<"p">>
P_q == <<"q">>
P_a == <<"a">>
P_b == <<"b">>
P_z == <<"z">>
P_n == <<"n">>

File_p == <<
    Sec(S_platformio, <<Opt(S_extra_configs, <<"a">>),
                        Opt(S_env_default, <<>>),
                        Opt(S_lib_extra_dirs, <<"d">>)>>),
    Sec(S_env, <<Opt(<<"k">>, <<"$", "{", "s", "y", "s", "e", "n", "v", ".", "F", "O", "O", "}">>),
                 Opt(S_upload_port, <<"u">>),
                 Opt(S_build_flags, <<"-", "D", "A">>)>>),
    Sec(S_env_uno, <<Opt(<<"k", "2">>,
                         <<"$", "{", "e", "n", "v", ":", "d", "u", "e", ".", "k", "3", "}">>)>>) >>

File_a == <<
    Sec(S_platformio, <<Opt(S_extra_configs, <<"b">>),
                        Opt(S_env_default, <<"u", "n", "o", ",", " ", "m", "i", "s">>)>>),
    Sec(S_env_uno, <<Opt(S_upload_port, <<>>),
                     Opt(S_build_flags,
                         <<"\n", "-", "D", "A", " ", ";", "c", "\n", "-", "D", "B">>)>>) >>

File_b == <<
    Sec(S_platformio, <<Opt(S_extra_configs, <<"[", "a", "b", "]", ",", " ", "a">>),
                        Opt(S_env_default, <<"u", "n", "o">>)>>),
    Sec(S_env_due, <<Opt(<<"k", "3">>, <<"y", "$", "{", "e", "n", "v", ".", "k", "}">>),
                     Opt(S_upload_port,
                         <<"$", "{", "s", "y", "s", "e", "n", "v", ".", "F", "O", "O", "}">>)>>),
    Sec(S_x, <<Opt(<<"b">>, <<"$", "{", "x", ".", "c", "}">>),
               Opt(<<"c">>, <<"$", "{", "x", ".", "b", "}">>)>>) >>

File_q == <<
    Sec(S_platformio, <<Opt(S_lib_extra_dirs, <<"d">>)>>),
    Sec(S_env_uno, <<Opt(S_upload_port, <<"0">>),
                     Opt(S_port, <<"1">>),
                     Opt(S_uport, <<"2">>)>>) >>

\* the files that exist; z is one the parser rejects, n does not exist
Files == {P_p, P_q, P_a, P_b, P_z}
Malformed == {P_z}

FileDoc(p) ==
    CASE p = P_p -> File_p
      [] p = P_q -> File_q
      [] p = P_a -> File_a
      [] p = P_b -> File_b
      [] OTHER -> <<>>

\* os.path.isfile(path)
isfile(p) == p \in Files

\* glob.glob(pattern): a literal name matches that file, "[ab]" matches a and b
glob(pattern) ==
    IF pattern = <<"[", "a", "b", "]">> THEN <<P_a, P_b>>
    ELSE IF pattern \in Files THEN <<pattern>>
    ELSE <<>>

-----------------------------------------------------------------------------
(* read: the file merger, on the state st = [doc, parsed, reads, exc] *)

RECURSIVE read(_, _, _)
RECURSIVE ReadEach(_, _)

\* the paths of: for pattern in ...: for item in glob.glob(pattern)
RECURSIVE GlobAll(_)
GlobAll(patterns) ==
    IF patterns = <<>> THEN <<>> ELSE glob(Head(patterns)) \o GlobAll(Tail(patterns))

\* lines 103-105: self.read(item) for each, until one raises
ReadEach(st, items) ==
    IF items = <<>> \/ st.exc # "" THEN st
    ELSE ReadEach(read(st, Head(items), TRUE), Tail(items))

\* lines 103-105, given what get("platformio", "extra_configs", []) returned
ReadExtra(st, extra) ==
    IF extra.exc # "" THEN [st EXCEPT !.exc = extra.exc]
    ELSE IF extra.v.t # "list" THEN st
    ELSE ReadEach(st, GlobAll(extra.v.v))

\* lines 99-105, after the parser has read the file
ReadParsed(st, parse_extra) ==
    IF parse_extra
    THEN ReadExtra(st, get(st.doc, S_platformio, S_extra_configs, PyList(<<>>)))
    ELSE st

\* a read that takes a path the parser rejects out of the processed paths
ReadNew_forget(st, p, parse_extra) ==
    IF p \in Malformed
    THEN [st EXCEPT !.reads = Append(@, p), !.exc = "InvalidProjectConf"]
    ELSE ReadParsed([st EXCEPT !.parsed = Append(@, p), !.reads = Append(@, p),
                               !.doc = parser_read(@, FileDoc(p))],
                    parse_extra)

\* lines 93-105: the path is recorded, then handed to the parser
ReadNew(st, p, parse_extra) ==
    IF p \in Malformed
    THEN [st EXCEPT !.parsed = Append(@, p), !.reads = Append(@, p),
                    !.exc = "InvalidProjectConf"]
    ELSE ReadParsed([st EXCEPT !.parsed = Append(@, p), !.reads = Append(@, p),
                               !.doc = parser_read(@, FileDoc(p))],
                    parse_extra)

\* a read whose guard stops the recursion only: a processed path given
\* again is parsed again
read_reparse(st, p, parse_extra) ==
    IF p \in Range(st.parsed)
    THEN (IF p \in Malformed
          THEN [st EXCEPT !.reads = Append(@, p), !.exc = "InvalidProjectConf"]
          ELSE [st EXCEPT !.reads = Append(@, p), !.doc = parser_read(@, FileDoc(p))])
    ELSE ReadNew(st, p, parse_extra)

\* read(path, parse_extra)
read(st, p, parse_extra) ==
    IF p \in Range(st.parsed) THEN st ELSE ReadNew(st, p, parse_extra)

-----------------------------------------------------------------------------
(* set *)

\* lines 149-152: a list is joined, and starts from a new line
Joined(lines) == IF lines # <<>> THEN <<"\n">> \o lines ELSE lines

\* the string set() stores for `value`
set_value(value) == IF value.t = "list" THEN Joined(JoinLines(value.v)) ELSE value.v

-----------------------------------------------------------------------------
(* validate, validate_options *)

\* envs()
EnvName(section) == SubSeq(section, 5, Len(section))

envs(doc) ==
    Keys(SelectSeq([i \in 1..Len(doc) |-> [k |-> EnvName(doc[i].name), s |-> doc[i].name]],
                   LAMBDA e : StartsWith(e.s, S_env_colon)))

\* renamed_options: the catalog options that list `option` as an old name
Renamed(option) ==
    {i \in 1..Len(ProjectOptions) : option \in Range(ProjectOptions[i].oldnames)}

\* renamed_options[option]: the last of them
RenamedTo(option) ==
    ProjectOptions[CHOOSE i \in Renamed(option) : \A j \in Renamed(option) : j <= i].name

\* lines 262-264: rename on the fly
Rename(doc, section, option) ==
    remove_option(parser_set(doc, section, RenamedTo(option),
                             parser_get(doc, section, option).v),
                  section, option)

\* lines 254-265: over the options the section had when the loop began
RECURSIVE RenameOptions(_, _, _)
RenameOptions(doc, section, opts) ==
    IF opts = <<>> THEN doc
    ELSE RenameOptions(IF Renamed(Head(opts)) # {} THEN Rename(doc, section, Head(opts))
                       ELSE doc,
                       section, Tail(opts))

\* lines 253-265: over the sections
RECURSIVE RenameSections(_, _)
RenameSections(doc, secs) ==
    IF secs = <<>> THEN doc
    ELSE RenameSections(RenameOptions(doc, Head(secs), parser_options(doc, Head(secs))),
                        Tail(secs))

\* _validate_unknown_options: the document it leaves (its warnings go to
\* the console)
validate_unknown_options(doc) == RenameSections(doc, sections(doc))

\* a move that leaves the option in [platformio]
MoveLibExtraDirs_copy(doc) ==
    parser_set(IF has_section(doc, S_env) THEN doc ELSE add_section(doc, S_env),
               S_env, S_lib_extra_dirs,
               parser_get(doc, S_platformio, S_lib_extra_dirs).v)

\* lines 232-236: lib_extra_dirs moves from [platformio] to [env]
MoveLibExtraDirs(doc) ==
    remove_option(
        parser_set(IF has_section(doc, S_env) THEN doc ELSE add_section(doc, S_env),
                   S_env, S_lib_extra_dirs,
                   parser_get(doc, S_platformio, S_lib_extra_dirs).v),
        S_platformio, S_lib_extra_dirs)

\* validate_options: the document it leaves
validate_options(doc) ==
    validate_unknown_options(
        IF has_section(doc, S_platformio)
           /\ parser_has_option(doc, S_platformio, S_lib_extra_dirs)
        THEN MoveLibExtraDirs(doc) ELSE doc)

Outcome(exc, info, doc) == [exc |-> exc, info |-> info, doc |-> doc]

\* lines 222-226, given the unknown names
ValidateUnknown(doc, with_options, known, unknown) ==
    IF unknown # {} THEN Outcome("UnknownEnvNames", <<unknown, known>>, doc)
    ELSE Outcome("", <<>>, IF with_options THEN validate_options(doc) ELSE doc)

\* lines 219-226, given the known names and what default_envs() returned or
\* raised: a string cannot be added to a list
ValidateKnown(doc, names, with_options, known, defaults) ==
    IF known = {} THEN Outcome("ProjectEnvsNotAvailable", <<>>, doc)
    ELSE IF defaults.exc # "" THEN Outcome(defaults.exc, <<>>, doc)
    ELSE IF defaults.v.t # "list" THEN Outcome("TypeError", <<>>, doc)
    ELSE ValidateUnknown(doc, with_options, known,
                         (Range(names) \cup Range(defaults.v.v)) \ known)

\* default_envs()
default_envs(doc) == get(doc, S_platformio, S_env_default, PyList(<<>>))

\* validate(envs, validate_options): what it raises and the document it leaves
validate(doc, root, names, with_options) ==
    IF ~isfile(root) THEN Outcome("NotPlatformIOProject", <<>>, doc)
    ELSE ValidateKnown(doc, names, with_options, Range(envs(doc)), default_envs(doc))

-----------------------------------------------------------------------------
(* the inputs the calls are drawn from *)

NoEnv == [n \in {} |-> <<>>]

\* the process environments the program is run in
Env_port == S_PLATFORMIO_UPLOAD_PORT :> <<"e">>
Env_empty_port == S_PLATFORMIO_UPLOAD_PORT :> <<>> @@ S_PLATFORMIO_UPORT :> <<"o", "2">>
Env_aliases == S_PLATFORMIO_PORT :> <<"o", "1">> @@ S_PLATFORMIO_UPORT :> <<"o", "2">>
Env_flags ==
    S_PLATFORMIO_BUILD_FLAGS :> <<"-", "D", "B", ",", " ", "-", "D", "A">>
        @@ S_PLATFORMIO_UPLOAD_PORT :> <<"e">> @@ S_FOO :> <<"b", "a", "r">>
Env_empty_flags == S_PLATFORMIO_BUILD_FLAGS :> <<>>

Environments == {NoEnv, Env_port, Env_empty_port, Env_aliases, Env_flags, Env_empty_flags}

\* the constructor calls: <<path, parse_extra, expand_interpolations, os.environ>>
Constructions ==
    ({P_p} \X BOOLEAN \X {TRUE} \X Environments)
    \cup ({P_n} \X {TRUE} \X {TRUE} \X Environments)
    \cup ({P_p} \X {TRUE} \X {FALSE} \X {NoEnv, Env_port, Env_flags})
    \cup ({P_q} \X {TRUE} \X {TRUE} \X {NoEnv})

\* the paths read() is given
ReadPaths == {P_a, P_z}

\* the (section, option) pairs get(), getraw() and has_option() are asked for
Queries == {
    <<S_env, S_upload_port>>, <<S_env_uno, S_upload_port>>, <<S_env_due, S_upload_port>>,
    <<S_env_uno, S_build_flags>>, <<S_env_due, S_build_flags>>,
    <<S_env_uno, <<"k">>>>, <<S_env_uno, <<"k", "2">>>>,
    <<S_x, <<"b">>>> }

RawQueries == {
    <<S_env_uno, <<"k">>>>, <<S_env_uno, <<"k", "2">>>>, <<S_env_due, S_upload_port>>,
    <<S_x, <<"b">>>>, <<S_x, <<"c">>>> }

HasQueries == {
    <<S_env_uno, <<"k">>>>, <<S_env_uno, S_upload_port>>, <<S_env_due, <<"k", "2">>>>,
    <<S_x, <<"b">>>> }

\* the sections options() is asked for
QuerySections == {S_platformio, S_env_uno, S_env_due}

\* the defaults get() is given
Defaults == {PyNone, PyStr(<<"d">>), PyList(<<>>)}

\* the arguments set() is given
SetArgs == { <<S_x, <<"b">>, PyList(<< <<"w">> >>)>> }

\* the environment names validate() is given
EnvArgs == { <<>>, << <<"u", "n", "o">> >>, << <<"u", "n", "o">>, <<"z", "z">> >> }

-----------------------------------------------------------------------------
(* the state machine *)

Returned(v) == [exc |-> "", val |-> v, info |-> <<>>]
Raised(e) == [exc |-> e, val |-> PyNone, info |-> <<>>]

\* what a call that returned r.v or raised r.exc leaves in ret
Result(r) == IF r.exc = "" THEN Returned(r.v) ELSE Raised(r.exc)

\* a returned list of names, a returned string, as Python values
AsList(r) == IF r.exc = "" THEN Ok(PyList(r.v)) ELSE r
AsStr(r) == IF r.exc = "" THEN Ok(PyStr(r.v)) ELSE r

NoDocument == [doc |-> <<>>, parsed |-> <<>>, reads |-> <<>>, exc |-> ""]

\* the document a read leaves
Merged(st) ==
    /\ parser' = st.doc
    /\ parsed' = st.parsed
    /\ parser_reads' = st.reads
    /\ ret' = Result([exc |-> st.exc, v |-> PyNone])

Constructed(st) ==
    /\ st.exc = ""
    /\ parser = st.doc
    /\ parsed = st.parsed
    /\ parser_reads = st.reads

\* __init__(path, parse_extra, expand_interpolations) in some environment;
\* a constructor that raises leaves no document
Init ==
    \E c \in Constructions :
        /\ path = c[1]
        /\ expand_interpolations = c[3]
        /\ environ = c[4]
        /\ Constructed(IF isfile(c[1]) THEN read(NoDocument, c[1], c[2]) ELSE NoDocument)
        /\ call = [op |-> "init"]
        /\ ret = Returned(PyNone)

Read ==
    \E p \in ReadPaths, parse_extra \in BOOLEAN :
        /\ Merged(read([doc |-> parser, parsed |-> parsed, reads |-> parser_reads, exc |-> ""],
                       p, parse_extra))
        /\ call' = [op |-> "read", path |-> p, parse_extra |-> parse_extra,
                    before |-> parser, parsed_before |-> parsed,
                    reads_before |-> parser_reads]
        /\ UNCHANGED <<path, expand_interpolations, environ>>

Options ==
    \E s \in QuerySections :
        /\ call' = [op |-> "options", section |-> s]
        /\ ret' = Result(AsList(options(parser, s)))
        /\ UNCHANGED <<path, expand_interpolations, parser, parsed, parser_reads, environ>>

HasOption ==
    \E q \in HasQueries :
        /\ call' = [op |-> "has_option", section |-> q[1], option |-> q[2]]
        /\ ret' = Returned(PyBool(has_option(parser, q[1], q[2])))
        /\ UNCHANGED <<path, expand_interpolations, parser, parsed, parser_reads, environ>>

GetRaw ==
    \E q \in RawQueries :
        /\ call' = [op |-> "getraw", section |-> q[1], option |-> q[2]]
        /\ ret' = Result(AsStr(getraw(parser, q[1], q[2])))
        /\ UNCHANGED <<path, expand_interpolations, parser, parsed, parser_reads, environ>>

Get ==
    \E q \in Queries, d \in Defaults :
        /\ call' = [op |-> "get", section |-> q[1], option |-> q[2], default |-> d]
        /\ ret' = Result(get(parser, q[1], q[2], d))
        /\ UNCHANGED <<path, expand_interpolations, parser, parsed, parser_reads, environ>>

Set ==
    \E a \in SetArgs :
        /\ call' = [op |-> "set", section |-> a[1], option |-> a[2], value |-> a[3]]
        /\ IF has_section(parser, a[1])
           THEN /\ parser' = parser_set(parser, a[1], a[2], set_value(a[3]))
                /\ ret' = Returned(PyNone)
           ELSE /\ parser' = parser
                /\ ret' = Raised("NoSectionError")
        /\ UNCHANGED <<path, expand_interpolations, parsed, parser_reads, environ>>

\* what validate leaves: the document, and True or the failure
Validated(r) ==
    /\ parser' = r.doc
    /\ ret' = [exc |-> r.exc, val |-> IF r.exc = "" THEN PyBool(TRUE) ELSE PyNone, info |-> r.info]

Validate ==
    \E names \in EnvArgs, with_options \in BOOLEAN :
        /\ call' = [op |-> "validate", envs |-> names, validate_options |-> with_options,
                    before |-> parser]
        /\ Validated(validate(parser, path, names, with_options))
        /\ UNCHANGED <<path, expand_interpolations, parsed, parser_reads, environ>>

ValidateOptions ==
    /\ call' = [op |-> "validate_options", before |-> parser]
    /\ parser' = validate_options(parser)
    /\ ret' = Returned(PyBool(TRUE))
    /\ UNCHANGED <<path, expand_interpolations, parsed, parser_reads, environ>>

Next ==
    \/ Read
    \/ Options
    \/ HasOption
    \/ GetRaw
    \/ Get
    \/ Set
    \/ Validate
    \/ ValidateOptions

Spec == Init /\ [][Next]_vars

-----------------------------------------------------------------------------
(* the properties of get *)

\* the catalog entry of the option the last call asked for
CallMeta == Meta(Scope(call.section), call.option)

\* the last call asked for a catalog option that has a bound variable
CallBound ==
    /\ OptionMeta(Scope(call.section), call.option) # {}
    /\ Truthy(CallMeta.sysenvvar)

\* the document holds a value for (section, option): the section declares
\* it or, for a declared env:* section, [env] does
FileDerived(doc, section, option) ==
    \/ parser_has_option(doc, section, option)
    \/ /\ StartsWith(section, S_env_colon)
       /\ has_section(doc, section)
       /\ parser_has_option(doc, S_env, option)

\* the document holds no value for (section, option): neither the section
\* nor, for an env:* section, [env] declares it
NoFileValue(doc, section, option) ==
    /\ ~parser_has_option(doc, section, option)
    /\ ~(StartsWith(section, S_env_colon) /\ parser_has_option(doc, S_env, option))

\* what the document's value for the last call's option resolves to
Resolved == getraw(parser, call.section, call.option)

\* the last call was get for a single-valued option whose bound variable is set
SingleBoundSet ==
    /\ call.op = "get"
    /\ CallBound
    /\ ~CallMeta.multiple
    /\ CallMeta.sysenvvar.v \in DOMAIN environ

\* C1 as stated: for a single-valued option with a bound variable that is
\* set, get returns the file-derived value whenever the document holds one
C1_FileValueAlwaysWins ==
    (SingleBoundSet /\ FileDerived(parser, call.section, call.option))
        => (Resolved.exc = "" /\ ret = Returned(PyStr(Resolved.v)))

\* C1 amended: for a single-valued option with a bound variable that is set,
\* get returns the file-derived value whenever that value resolves to a
\* non-empty string, whatever the default and the variable's value are
C1_NonEmptyFileValueWins ==
    (SingleBoundSet /\ Resolved.exc = "" /\ Resolved.v # <<>>)
        => ret = Returned(PyStr(Resolved.v))

\* get("env:uno", "upload_port", "d") with PLATFORMIO_UPLOAD_PORT=e returned
\* the "u" that [env] declares
C1_Witness ==
    /\ SingleBoundSet
    /\ call.section = S_env_uno
    /\ call.default = PyStr(<<"d">>)
    /\ environ[S_PLATFORMIO_UPLOAD_PORT] = <<"e">>
    /\ parser_get(parser, S_env, S_upload_port) = Ok(<<"u">>)
    /\ ret = Returned(PyStr(<<"u">>))

\* the first legacy alias whose variable PLATFORMIO_<OLDNAME> holds a value
RECURSIVE FirstAlias(_)
FirstAlias(oldnames) ==
    IF oldnames = <<>> THEN PyNone
    ELSE IF Truthy(getenv(S_PLATFORMIO_ \o Upper(Head(oldnames))))
    THEN getenv(S_PLATFORMIO_ \o Upper(Head(oldnames)))
    ELSE FirstAlias(Tail(oldnames))

\* the value found in the environment: the bound variable's, or else the
\* first legacy alias's
FoundInEnvironment(meta) ==
    IF Truthy(getenv(meta.sysenvvar.v)) THEN getenv(meta.sysenvvar.v)
    ELSE FirstAlias(meta.oldnames)

\* C2: for a single-valued option with a bound variable, when the document
\* holds no value for it and one is found in the environment, get returns
\* the environment value whatever the default is
C2_EnvironmentReplacesDefault ==
    (/\ call.op = "get"
     /\ CallBound
     /\ ~CallMeta.multiple
     /\ NoFileValue(parser, call.section, call.option)
     /\ Truthy(FoundInEnvironment(CallMeta)))
        => ret = Returned(FoundInEnvironment(CallMeta))

\* the last call was get, without a default, for a multiple-valued option
\* whose bound variable is set, and the document's value resolves or there
\* is none
MultiBoundSet ==
    /\ call.op = "get"
    /\ call.default = PyNone
    /\ CallBound
    /\ CallMeta.multiple
    /\ CallMeta.sysenvvar.v \in DOMAIN environ
    /\ Resolved.exc \in {"", "NoSectionError", "NoOptionError"}

\* the tokens of the file-derived value, none when there is no such value
FileTokens == IF Resolved.exc = "" THEN parse_multi_values(Resolved.v) ELSE <<>>

\* the tokens of the bound variable's value
EnvTokens == parse_multi_values(environ[CallMeta.sysenvvar.v])

\* C3 as stated: for a multiple-valued option whose bound variable is set,
\* get returns the file's tokens followed by the variable's tokens
C3_TokensOfFileThenEnvironment ==
    MultiBoundSet => ret = Returned(PyList(FileTokens \o EnvTokens))

\* C3 amended: for a multiple-valued option whose bound variable is set to a
\* non-empty value, get returns the file's tokens followed by the variable's
\* tokens, none removed; the variable's tokens alone when there is no file value
C3_TokensOfFileThenNonEmptyEnvironment ==
    (MultiBoundSet /\ environ[CallMeta.sysenvvar.v] # <<>>)
        => ret = Returned(PyList(FileTokens \o EnvTokens))

\* get("env:uno", "build_flags") with build_flags = "\n-DA ;c\n-DB" and
\* PLATFORMIO_BUILD_FLAGS="-DB, -DA": the tokens in both appear twice
C3_Witness ==
    /\ MultiBoundSet
    /\ call.section = S_env_uno
    /\ call.option = S_build_flags
    /\ parser_has_option(parser, S_env_uno, S_build_flags)
    /\ environ[S_PLATFORMIO_BUILD_FLAGS] = <<"-", "D", "B", ",", " ", "-", "D", "A">>
    /\ ret = Returned(PyList(<< <<"-", "D", "A">>, <<"-", "D", "B">>,
                               <<"-", "D", "B">>, <<"-", "D", "A">> >>))

-----------------------------------------------------------------------------
(* scope inheritance *)

\* an option of [env] that the declared section env:NAME does not declare
Inherited(doc, section, option) ==
    /\ StartsWith(section, S_env_colon)
    /\ has_section(doc, section)
    /\ parser_has_option(doc, S_env, option)
    /\ ~parser_has_option(doc, section, option)

\* C4: an option declared only in [env] is listed by options(env:NAME),
\* reported by has_option(env:NAME, option) and read by get(env:NAME, option,
\* default) as it is read from [env], with interpolation on or off
C4_InheritedFromEnv ==
    /\ (call.op = "options" /\ StartsWith(call.section, S_env_colon)
            /\ has_section(parser, call.section) /\ has_section(parser, S_env))
        => \A o \in Range(parser_options(parser, S_env)) : o \in Range(ret.val.v)
    /\ (call.op = "has_option" /\ Inherited(parser, call.section, call.option))
        => ret = Returned(PyBool(TRUE))
    /\ (call.op = "get" /\ Inherited(parser, call.section, call.option))
        => ret = Result(get(parser, S_env, call.option, call.default))

-----------------------------------------------------------------------------
(* the properties of read *)

NoDuplicates(s) == \A i, j \in DOMAIN s : i # j => s[i] # s[j]

\* C5: no path is handed to the parser twice, the processed paths hold no
\* path twice, and read(path) of a processed path changes neither the
\* document nor the processed paths
C5_EachPathParsedOnce ==
    /\ NoDuplicates(parser_reads)
    /\ NoDuplicates(parsed)
    /\ (call.op = "read" /\ call.path \in Range(call.parsed_before))
        => /\ parser = call.before
           /\ parsed = call.parsed_before
           /\ parser_reads = call.reads_before

\* read("a") given again after it had merged a and, through a's
\* extra_configs, b, whose own extra_configs list both again
C5_Witness ==
    /\ call.op = "read"
    /\ call.path = P_a
    /\ call.parse_extra
    /\ P_a \in Range(call.parsed_before)
    /\ P_b \in Range(call.parsed_before)
    /\ parser_get(parser, S_platformio, S_extra_configs)
           = Ok(<<"[", "a", "b", "]", ",", " ", "a">>)

\* C10: a read(path) that raises InvalidProjectConf leaves the path among the
\* processed paths, and a read of it after that returns without handing it
\* to the parser and without raising
C10_FailedReadIsRecorded ==
    (call.op = "read" /\ call.path \in Malformed)
        => IF call.path \in Range(call.parsed_before)
           THEN ret = Returned(PyNone) /\ parser_reads = call.reads_before
           ELSE ret = Raised("InvalidProjectConf") /\ call.path \in Range(parsed)

\* read("z") of the rejected file z given a second time
C10_Witness ==
    /\ call.op = "read"
    /\ call.path = P_z
    /\ P_z \in Range(call.parsed_before)
    /\ P_z \in Range(parser_reads)
    /\ ret = Returned(PyNone)

-----------------------------------------------------------------------------
(* the properties of interpolation *)

\* the ${section.option} references of a value from position i on, left to
\* right, those to sysenv left out
RECURSIVE References(_, _)
ReferencesAt(v, i, m) ==
    IF ~m.ok THEN References(v, i + 1)
    ELSE (IF m.section = S_sysenv THEN {} ELSE {<<m.section, m.option>>})
             \cup References(v, m.end + 1)

References(v, i) == IF i > Len(v) THEN {} ELSE ReferencesAt(v, i, MatchAt(v, i))

\* the document holds a value for the option a reference names
Exists(doc, node) == getraw_lookup(doc, node[1], node[2]).exc = ""

\* the options that the value of `node` refers to
Targets(doc, node) ==
    IF Exists(doc, node) THEN References(getraw_lookup(doc, node[1], node[2]).v, 1) ELSE {}

\* the options declared in the document, counted
RECURSIVE OptionCount(_)
OptionCount(doc) == IF doc = <<>> THEN 0 ELSE Len(Head(doc).opts) + OptionCount(Tail(doc))

\* the options reached from `nodes` along at most n references
RECURSIVE Reach(_, _, _)
Reach(doc, nodes, n) ==
    IF n = 0 THEN nodes
    ELSE Reach(doc, nodes \cup UNION {Targets(doc, x) : x \in nodes}, n - 1)

\* `node` and every option its value refers to, directly or not
Closure(doc, node) == Reach(doc, {node}, OptionCount(doc) + 1)

\* the value of `node` refers to `node` again, directly or not
OnCycle(doc, node) == node \in Reach(doc, Targets(doc, node), OptionCount(doc) + 1)

\* the references from `node` on all name options the document holds
AllExist(doc, node) == \A x \in Closure(doc, node) : Exists(doc, x)

\* the references from `node` on form an acyclic graph
Acyclic(doc, node) == \A x \in Closure(doc, node) : ~OnCycle(doc, x)

\* the value v from position i on with each reference replaced by the
\* expansion of the value it names, and each ${sysenv.NAME} by the variable
\* NAME (by nothing when it is unset), at most n references deep
RECURSIVE Expansion(_, _, _, _)
Replacement(doc, m, n) ==
    IF m.section = S_sysenv
    THEN (IF m.option \in DOMAIN environ THEN environ[m.option] ELSE <<>>)
    ELSE IF n = 0 \/ ~Exists(doc, <<m.section, m.option>>) THEN <<>>
    ELSE Expansion(doc, getraw_lookup(doc, m.section, m.option).v, 1, n - 1)

ExpansionAt(doc, v, i, n, m) ==
    IF m.ok THEN Replacement(doc, m, n) \o Expansion(doc, v, m.end + 1, n)
    ELSE <<v[i]>> \o Expansion(doc, v, i + 1, n)

Expansion(doc, v, i, n) ==
    IF i > Len(v) THEN <<>> ELSE ExpansionAt(doc, v, i, n, MatchAt(v, i))

\* the last call read (section, option) with interpolation on
ReadsCallOption ==
    /\ call.op \in {"getraw", "get"}
    /\ expand_interpolations

CallNode == <<call.section, call.option>>

C9_CycleReturnsDefault ==
    (/\ call.op = "get"
     /\ expand_interpolations
     /\ OnCycle(parser, CallNode))
        => ret = Result(get_value(call.section, call.option, call.default))

\* C9 amended: with interpolation on, get and getraw of an option on a cycle
\* of references that all name existing options raise RecursionError
C9_CycleRaisesRecursionError ==
    (/\ ReadsCallOption
     /\ OnCycle(parser, CallNode)
     /\ AllExist(parser, CallNode))
        => ret = Raised("RecursionError")

\* get("x", "b", "d") with b = ${x.c} and c = ${x.b}
C9_Witness ==
    /\ call.op = "get"
    /\ expand_interpolations
    /\ call.section = S_x
    /\ call.option = <<"b">>
    /\ call.default = PyStr(<<"d">>)
    /\ Targets(parser, CallNode) = {<<S_x, <<"c">>>>}
    /\ Targets(parser, <<S_x, <<"c">>>>) = {CallNode}
    /\ ret.exc = "RecursionError"

-----------------------------------------------------------------------------
(* the properties of validate and validate_options *)

\* the declared env:* names
Declared(doc) == {EnvName(doc[i].name) : i \in {j \in 1..Len(doc) : StartsWith(doc[j].name, S_env_colon)}}

\* the names of the platformio env_default option, none when it is not declared
DefaultNames(doc) ==
    IF parser_has_option(doc, S_platformio, S_env_default)
    THEN Range(parse_multi_values(parser_get(doc, S_platformio, S_env_default).v))
    ELSE {}

\* the names asked for that are not declared
Unknown(doc, names) == (Range(names) \cup DefaultNames(doc)) \ Declared(doc)

\* C7: validate(envs) raises NotPlatformIOProject when the root path is no
\* file; otherwise ProjectEnvsNotAvailable when no env:* section is declared;
\* otherwise UnknownEnvNames, with the unknown and the declared names, exactly
\* when a name given or listed by env_default is not declared; otherwise it
\* does not fail
C7_ValidatePrecedence ==
    call.op = "validate" =>
        IF ~isfile(path) THEN ret.exc = "NotPlatformIOProject"
        ELSE IF Declared(call.before) = {} THEN ret.exc = "ProjectEnvsNotAvailable"
        ELSE IF Unknown(call.before, call.envs) # {}
        THEN /\ ret.exc = "UnknownEnvNames"
             /\ ret.info = <<Unknown(call.before, call.envs), Declared(call.before)>>
        ELSE ret.exc = ""

\* the (section, option) pairs a document declares
Pairs(doc) ==
    UNION {{<<doc[i].name, doc[i].opts[j].k>> : j \in 1..Len(doc[i].opts)} : i \in 1..Len(doc)}

\* the value a document holds for a pair, if it declares the pair
Held(doc, pair) ==
    IF parser_has_option(doc, pair[1], pair[2]) THEN parser_get(doc, pair[1], pair[2])
    ELSE Raise("NoOptionError")

\* the option is a deprecated alias of a catalog option
DeprecatedAlias(option) == Renamed(option) # {}

\* the pair carries the current name of a deprecated alias that its section
\* declared
RenamedInto(doc, pair) ==
    \E o \in Range(parser_options(doc, pair[1])) :
        DeprecatedAlias(o) /\ RenamedTo(o) = pair[2]

\* where lib_extra_dirs moves from and to
Moved == {<<S_platformio, S_lib_extra_dirs>>, <<S_env, S_lib_extra_dirs>>}

\* the last call ran validate_options on a document whose [platformio]
\* declared lib_extra_dirs
Migrated ==
    /\ \/ call.op = "validate_options"
       \/ call.op = "validate" /\ call.validate_options /\ ret.exc = ""
    /\ parser_has_option(call.before, S_platformio, S_lib_extra_dirs)

\* lib_extra_dirs is in [env] with the value it had in [platformio], and no
\* longer in [platformio]
MovedToEnv ==
    /\ has_section(parser, S_env)
    /\ parser_get(parser, S_env, S_lib_extra_dirs)
           = parser_get(call.before, S_platformio, S_lib_extra_dirs)
    /\ ~parser_has_option(parser, S_platformio, S_lib_extra_dirs)

\* C8 as stated: after validate_options lib_extra_dirs has moved from
\* [platformio] to [env], every other pair that is not a deprecated alias is
\* unchanged, and validate_options again changes nothing
C8_MigrationLeavesOthers ==
    Migrated =>
        /\ MovedToEnv
        /\ \A pr \in (Pairs(call.before) \cup Pairs(parser)) \ Moved :
               ~DeprecatedAlias(pr[2]) => Held(parser, pr) = Held(call.before, pr)
        /\ validate_options(parser) = parser

\* C8 amended: after validate_options lib_extra_dirs has moved from
\* [platformio] to [env], every other pair that is neither a deprecated alias
\* nor the current name of one that its section declared is unchanged, and
\* validate_options again changes nothing
C8_MigrationLeavesUnrenamed ==
    Migrated =>
        /\ MovedToEnv
        /\ \A pr \in (Pairs(call.before) \cup Pairs(parser)) \ Moved :
               (~DeprecatedAlias(pr[2]) /\ ~RenamedInto(call.before, pr))
                   => Held(parser, pr) = Held(call.before, pr)
        /\ validate_options(parser) = parser

\* validate_options on a document with lib_extra_dirs = d in [platformio]
\* and no [env]
C8_Witness ==
    /\ call.op = "validate_options"
    /\ parser_get(call.before, S_platformio, S_lib_extra_dirs) = Ok(<<"d">>)
    /\ ~has_section(call.before, S_env)
    /\ parser_get(parser, S_env, S_lib_extra_dirs) = Ok(<<"d">>)
    /\ ~parser_has_option(parser, S_platformio, S_lib_extra_dirs)

=============================================================================
